---- MODULE Spec2Model ----
(***************************************************************************)
(* Model of lcapy/schemlineqplacer.py: the one-dimensional constraint      *)
(* placer Lineq.  Lineq.add accumulates distance constraints between       *)
(* canonical nodes in an insertion-ordered dict; Lineq.solve builds the    *)
(* linear system, factorises it and returns node positions and the width.  *)
(*                                                                         *)
(* Scope.  self.cnodes is the state Cnodes(nodes) leaves when link() is   *)
(* not called: every node is its own canonical node.  add is called        *)
(* between two distinct canonical nodes.  The debug output of solve and    *)
(* the fields self.W, self.b, self.U it keeps are left out; the warning    *)
(* for a negative stretch changes nothing that solve returns.              *)
(*                                                                         *)
(* Arithmetic.  Sizes are integers.  The coefficient columns of the        *)
(* system are a graph incidence matrix extended by unit columns, which is  *)
(* totally unimodular: every pivot taken in a coefficient column is +1 or  *)
(* -1, every intermediate value is an integer and every solution of the    *)
(* basic system is an integer vector.  The floating point computation of   *)
(* the program is therefore exact on these inputs and integer arithmetic   *)
(* reproduces it.                                                          *)
(***************************************************************************)
EXTENDS Integers, Sequences, FiniteSets

\* Largest absolute size passed to Lineq.add.
MaxSize == 2

\* The nodes handed to Lineq.__init__, in the iteration order of self.cnodes.
NodeList == <<"a", "b", "c">>

Nodes == {NodeList[i] : i \in 1..Len(NodeList)}

\* Sizes passed to Lineq.add: zero, the unit size and the largest size, in
\* both signs.  add compares sizes by sign, equality and absolute value only.
Sizes == {0 - MaxSize, -1, 0, 1, MaxSize}

\* self.cnodes after Cnodes(nodes) and no link() call: every node is its own
\* canonical node.
cnodes == [n \in Nodes |-> n]

VARIABLES
    constraints,  \* self.constraints: the dict, as the sequence of its items
    last,         \* how the last call ended: "returned" (lines 56, 71 and the
                  \* end of add), "raised" (line 81), "replaced_fixed" (line
                  \* 83), "replaced_stretch" (line 87), "solve"
    result        \* what the last solve() returned or raised

vars == <<constraints, last, result>>

abs(x) == IF x < 0 THEN 0 - x ELSE x

\* Constraint(size, stretch)
Constraint(size, stretch) == [size |-> size, stretch |-> stretch]

\* key in self.constraints
HasKey(store, key) == \E i \in 1..Len(store) : store[i].key = key

\* position of key among the items of the dict
KeyIndex(store, key) == CHOOSE i \in 1..Len(store) : store[i].key = key

\* self.constraints[key]
Lookup(store, key) == store[KeyIndex(store, key)].c

\* self.constraints[key] = constraint: a new key is appended, an existing
\* key keeps its place in the iteration order
SetItem(store, key, constraint) ==
    IF HasKey(store, key)
    THEN [store EXCEPT ![KeyIndex(store, key)] = [key |-> key, c |-> constraint]]
    ELSE Append(store, [key |-> key, c |-> constraint])

\* a variant that tests the forward key only
IsNewPairForwardOnly(store, key, key2) == ~HasKey(store, key)

\* line 69: key not in self.constraints and key2 not in self.constraints
IsNewPair(store, key, key2) == ~HasKey(store, key) /\ ~HasKey(store, key2)

\* a variant that compares magnitudes, ignoring the direction of the key
IncompatibleAbs(constraint, constraint2) ==
    /\ ~constraint.stretch
    /\ abs(constraint2.size) # abs(constraint.size)

\* line 80, reached when constraint2 is fixed
Incompatible(constraint, constraint2) ==
    /\ ~constraint.stretch
    /\ constraint2.size # constraint.size

\* a variant that compares the signed sizes
LargerSigned(constraint, constraint2) == constraint.size > constraint2.size

\* line 86
Larger(constraint, constraint2) == abs(constraint.size) > abs(constraint2.size)

\* a variant that stores the incoming constraint before the compatibility test
ResolveStoreFirst(store, key, constraint) ==
    LET constraint2 == Lookup(store, key) IN
    IF ~constraint2.stretch
    THEN IF Incompatible(constraint, constraint2)
         THEN [store |-> SetItem(store, key, constraint), branch |-> "raised"]
         ELSE [store |-> SetItem(store, key, constraint), branch |-> "replaced_fixed"]
    ELSE IF Larger(constraint, constraint2)
         THEN [store |-> SetItem(store, key, constraint), branch |-> "replaced_stretch"]
         ELSE [store |-> store, branch |-> "returned"]

\* a variant that lets a stretchy constraint replace a fixed one only when larger
ResolveFixedIfLarger(store, key, constraint) ==
    LET constraint2 == Lookup(store, key) IN
    IF ~constraint2.stretch /\ ~constraint.stretch
    THEN IF Incompatible(constraint, constraint2)
         THEN [store |-> store, branch |-> "raised"]
         ELSE [store |-> SetItem(store, key, constraint), branch |-> "replaced_fixed"]
    ELSE IF Larger(constraint, constraint2)
         THEN [store |-> SetItem(store, key, constraint),
               branch |-> IF constraint2.stretch THEN "replaced_stretch"
                          ELSE "replaced_fixed"]
         ELSE [store |-> store, branch |-> "returned"]

\* lines 78-87: the incoming constraint against the one stored under key
Resolve(store, key, constraint) ==
    LET constraint2 == Lookup(store, key) IN
    IF ~constraint2.stretch
    THEN IF Incompatible(constraint, constraint2)
         THEN [store |-> store, branch |-> "raised"]
         ELSE [store |-> SetItem(store, key, constraint), branch |-> "replaced_fixed"]
    ELSE IF Larger(constraint, constraint2)
         THEN [store |-> SetItem(store, key, constraint), branch |-> "replaced_stretch"]
         ELSE [store |-> store, branch |-> "returned"]

\* lines 53-87: Lineq.add(elt, n1, n2, size, stretch) on the dict `store`;
\* the dict it leaves and the statement at which the call ends
AddResult(store, n1, n2, size, stretch) ==
    IF size = 0
    THEN [store |-> store, branch |-> "returned"]
    ELSE LET m1   == IF size < 0 THEN n2 ELSE n1
             m2   == IF size < 0 THEN n1 ELSE n2
             sz   == IF size < 0 THEN 0 - size ELSE size
             c1   == IF m1 \in DOMAIN cnodes THEN cnodes[m1] ELSE m1
             c2   == IF m2 \in DOMAIN cnodes THEN cnodes[m2] ELSE m2
             key  == <<c1, c2>>
             key2 == <<c2, c1>>
         IN  IF IsNewPair(store, key, key2)
             THEN [store |-> SetItem(store, key, Constraint(sz, stretch)),
                   branch |-> "returned"]
             ELSE IF HasKey(store, key2)
                  THEN Resolve(store, key2, Constraint(0 - sz, stretch))
                  ELSE Resolve(store, key, Constraint(sz, stretch))

(***************************************************************************)
(* Lineq.solve                                                             *)
(***************************************************************************)

RECURSIVE Imap(_)
\* lines 91-98: cnode_imap, the canonical nodes in first-seen order, after
\* the first i nodes of self.cnodes
Imap(i) ==
    IF i = 0 THEN <<>>
    ELSE LET p == Imap(i - 1)
             c == cnodes[NodeList[i]]
         IN  IF \E j \in 1..Len(p) : p[j] = c THEN p ELSE Append(p, c)

cnode_imap == Imap(Len(NodeList))

\* cnode_map[cnode]: the index of a canonical node, from 0
cnode_map(c) == (CHOOSE j \in 1..Len(cnode_imap) : cnode_imap[j] = c) - 1

\* line 105
Nnodes == Len(cnode_imap)

\* lines 100-103
Nstretches(store) == Cardinality({i \in 1..Len(store) : store[i].c.stretch})

\* line 114
Nunknowns(store) == Nnodes - 1 + Nstretches(store)

\* lines 123-137 and 140: row m of W = hstack((A, b)); columns count from 1,
\* so unknown column j of the program is column j + 1 here
WRow(store, m) ==
    LET m1 == cnode_map(store[m].key[1])
        m2 == cnode_map(store[m].key[2])
        s  == Cardinality({i \in 1..(m - 1) : store[i].c.stretch})
        N  == Nunknowns(store) + 1
    IN  [j \in 1..N |->
            IF j = N THEN store[m].c.size
            ELSE IF store[m].c.stretch /\ j = s + Nnodes THEN -1
            ELSE IF m2 # 0 /\ j = m2 THEN 1
            ELSE IF m1 # 0 /\ j = m1 THEN -1
            ELSE 0]

\* line 140: the augmented matrix, a sequence of rows
Augmented(store) == [m \in 1..Len(store) |-> WRow(store, m)]

\* division of x by y, exact wherever the model uses it
Quot(x, y) == IF y < 0 THEN (0 - x) \div (0 - y) ELSE x \div y

\* the pivot search of the factorisation: the first row at or below k whose
\* entry in column k has the largest absolute value
PivotRow(M, k) ==
    CHOOSE p \in k..Len(M) :
        \A i \in k..Len(M) :
            /\ abs(M[i][k]) <= abs(M[p][k])
            /\ (i < p => abs(M[i][k]) < abs(M[p][k]))

\* one step of the factorisation: nothing when column k is zero at and below
\* the diagonal, else the pivot row is swapped into place and eliminated from
\* the rows below
LUStep(M, k) ==
    LET p == PivotRow(M, k) IN
    IF M[p][k] = 0 THEN M
    ELSE LET S == [M EXCEPT ![k] = M[p], ![p] = M[k]]
         IN  [i \in 1..Len(M) |->
                 IF i <= k THEN S[i]
                 ELSE [j \in 1..Len(S[i]) |->
                          IF j < k THEN S[i][j]
                          ELSE IF j = k THEN 0
                          ELSE S[i][j] - Quot(S[i][k] * S[k][j], S[k][k])]]

RECURSIVE LUSteps(_, _)
LUSteps(M, k) == IF k = 0 THEN M ELSE LUStep(LUSteps(M, k - 1), k)

\* lines 159-160: rows with a negative diagonal entry change sign from the
\* diagonal on
FlipRows(U) ==
    [r \in 1..Len(U) |->
        [j \in 1..Len(U[r]) |->
            IF U[r][r] < 0 /\ j >= r THEN 0 - U[r][j] ELSE U[r][j]]]

\* line 144: U of lu(W, permute_l=True), min(rows, columns) rows
UpperOf(W, N) ==
    LET K == IF Len(W) < N THEN Len(W) ELSE N
        F == LUSteps(W, K)
    IN  [r \in 1..K |-> [j \in 1..N |-> IF j < r THEN 0 ELSE F[r][j]]]

RECURSIVE Det(_)
\* determinant of a square matrix, by expansion along the first row
Det(A) ==
    LET n == Len(A) IN
    IF n = 0 THEN 1
    ELSE LET Minor(c) == [i \in 1..(n - 1) |->
                             [j \in 1..(n - 1) |->
                                 A[i + 1][IF j < c THEN j ELSE j + 1]]]
             Term(c) == (IF c % 2 = 1 THEN 1 ELSE -1) * A[1][c] * Det(Minor(c))
             Sum[c \in 0..n] == IF c = 0 THEN 0 ELSE Sum[c - 1] + Term(c)
         IN  Sum[n]

RECURSIVE SortedSeq(_)
\* the members of a set of numbers in increasing order
SortedSeq(S) ==
    IF S = {} THEN <<>>
    ELSE LET lo == CHOOSE x \in S : \A y \in S : x <= y
         IN  <<lo>> \o SortedSeq(S \ {lo})

MinOf(S) == CHOOSE x \in S : \A y \in S : x <= y
MaxOf(S) == CHOOSE x \in S : \A y \in S : y <= x

\* lines 89-218: what Lineq.solve returns or raises on the dict `store`
SolveResult(store) ==
    IF Nnodes = 1
    THEN [status |-> "ok", pos |-> [n \in Nodes |-> 0], width |-> 0]
    ELSE
    LET N  == Nunknowns(store) + 1
        W  == Augmented(store)
        U  == UpperOf(W, N)
        K  == Len(U)
        \* lines 149-153
        bad == {r \in 1..(Nnodes - 1) : r > K \/ U[r][r] = 0}
    IN
    IF bad # {}
    THEN IF MinOf(bad) > K
         THEN [status |-> "IndexError"]
         ELSE [status |-> "NoBasicVariable", node |-> cnode_imap[MinOf(bad)]]
    ELSE
    LET \* lines 155-157
        bound  == {r \in 1..K : U[r][r] # 0}
        U2     == FlipRows(U)
        \* lines 162-165
        Nbasic == Cardinality(bound)
        cols   == SortedSeq(bound)
        Ur     == [i \in 1..Nbasic |-> [j \in 1..Nbasic |-> U2[i][cols[j]]]]
        br     == [i \in 1..Nbasic |-> U2[i][N]]
        d      == Det(Ur)
    IN
    IF d = 0
    THEN [status |-> "LinAlgError"]
    ELSE
    LET \* line 167: inv(Ur) . br, by Cramer's rule
        xx   == [j \in 1..Nbasic |->
                    Quot(Det([i \in 1..Nbasic |->
                                 [jj \in 1..Nbasic |->
                                     IF jj = j THEN br[i] ELSE Ur[i][jj]]]), d)]
        \* line 168
        x    == [m \in 1..(Nnodes - 1) |-> xx[m]]
        \* lines 178-179
        minx == MinOf({x[m] : m \in 1..(Nnodes - 1)})
        maxx == MaxOf({x[m] : m \in 1..(Nnodes - 1)})
    IN  [status |-> "ok",
         \* lines 181-187
         pos    |-> [n \in Nodes |->
                        LET m == cnode_map(cnodes[n]) IN
                        IF m = 0 THEN 0 - minx ELSE x[m] - minx],
         width  |-> maxx - minx]

NoResult == [status |-> "none"]

Init ==
    /\ constraints = <<>>
    /\ last = "init"
    /\ result = NoResult

\* a call of Lineq.add between two distinct nodes
Add(n1, n2, size, stretch) ==
    LET r == AddResult(constraints, n1, n2, size, stretch) IN
    /\ constraints' = r.store
    /\ last' = r.branch
    /\ result' = NoResult

AddCall ==
    \E n1 \in Nodes, n2 \in Nodes, size \in Sizes, stretch \in BOOLEAN :
        n1 # n2 /\ Add(n1, n2, size, stretch)

\* a call of Lineq.solve
SolveCall ==
    /\ result' = SolveResult(constraints)
    /\ last' = "solve"
    /\ UNCHANGED constraints

Next == AddCall \/ SolveCall

\* add and solve calls in any order
Spec == Init /\ [][Next]_vars

\* add calls only
AddSpec == Init /\ [][AddCall]_vars

(***************************************************************************)
(* Vocabulary of the properties                                            *)
(***************************************************************************)

\* the items of `store` for the unordered pair {n1, n2}
PairItems(store, n1, n2) ==
    {i \in 1..Len(store) : store[i].key \in {<<n1, n2>>, <<n2, n1>>}}

HoldsPair(store, n1, n2) == PairItems(store, n1, n2) # {}

\* the item stored for the pair
PairItem(store, n1, n2) == store[CHOOSE i \in PairItems(store, n1, n2) : TRUE]

\* a size given in the direction n1 -> n2, expressed in the direction of key
InKeyDirection(key, n1, n2, size) == IF key = <<n1, n2>> THEN size ELSE 0 - size

RECURSIVE ReachFrom(_, _)
\* the nodes joined to the set S by a path of stored constraints
ReachFrom(store, S) ==
    LET T == S \cup {n \in Nodes :
                 \E i \in 1..Len(store) :
                     \/ store[i].key[1] \in S /\ store[i].key[2] = n
                     \/ store[i].key[2] \in S /\ store[i].key[1] = n}
    IN  IF T = S THEN S ELSE ReachFrom(store, T)

\* every canonical node has a path of constraints to the reference node
Connected(store) == ReachFrom(store, {cnode_imap[1]}) = Nodes

Coordinates == {result.pos[n] : n \in Nodes}

OnlyFixed(store) == \A i \in 1..Len(store) : ~store[i].c.stretch

(***************************************************************************)
(* Properties                                                              *)
(***************************************************************************)

\* C1: whenever solve returns, the smallest coordinate it returns over all
\* nodes, the reference node included, is exactly 0.
C1_MinimumIsZero ==
    result.status = "ok" => MinOf(Coordinates) = 0

\* C2: whenever solve returns, the width it returns is the largest minus the
\* smallest coordinate it returns over all nodes, the reference node included.
C2_SpanIsExtent ==
    result.status = "ok" => result.width = MaxOf(Coordinates) - MinOf(Coordinates)

\* C3: whenever solve returns on a store of fixed constraints only, every
\* stored constraint (src, dst) of size d has coord(dst) - coord(src) = d.
C3_FixedConstraintsMet ==
    (result.status = "ok" /\ OnlyFixed(constraints)) =>
        \A i \in 1..Len(constraints) :
            result.pos[constraints[i].key[2]] - result.pos[constraints[i].key[1]]
                = constraints[i].c.size

\* C4: when some canonical node has no path of constraints to the reference
\* node, solve fails with the error 'No basic variable for node ...'.
C4_DisconnectedIsUnderdetermined ==
    (last = "solve" /\ Nnodes >= 2 /\ ~Connected(constraints)) =>
        result.status = "NoBasicVariable"

\* C5 as stated: on a pair that holds a fixed constraint, an add of a fixed
\* constraint of any size raises exactly when the size, in the direction of
\* the stored key, differs from the stored size, and otherwise leaves the
\* store as it was.
C5_RaisesIffSizeDiffers ==
    [][\A n1 \in Nodes, n2 \in Nodes, size \in Sizes :
          (/\ n1 # n2
           /\ HoldsPair(constraints, n1, n2)
           /\ ~PairItem(constraints, n1, n2).c.stretch
           /\ Add(n1, n2, size, FALSE))
          => LET e == PairItem(constraints, n1, n2) IN
             /\ (last' = "raised") <=>
                    (InKeyDirection(e.key, n1, n2, size) # e.c.size)
             /\ (last' # "raised" => constraints' = constraints)]_vars

\* C5 amended: on a pair that holds a fixed constraint, an add of a fixed
\* constraint of non-zero size raises exactly when the size, in the direction
\* of the stored key, differs from the stored size, and otherwise leaves the
\* store as it was; an add of size 0 returns without raising and without
\* changing the store.  Stated of every add that can be called next.
C5_RaisesIffNonZeroSizeDiffers ==
    \A n1 \in Nodes, n2 \in Nodes, size \in Sizes :
        (/\ n1 # n2
         /\ HoldsPair(constraints, n1, n2)
         /\ ~PairItem(constraints, n1, n2).c.stretch)
        => LET e == PairItem(constraints, n1, n2)
               r == AddResult(constraints, n1, n2, size, FALSE)
           IN  /\ (r.branch = "raised") <=>
                      (size # 0 /\ InKeyDirection(e.key, n1, n2, size) # e.c.size)
               /\ (r.branch # "raised" => r.store = constraints)

\* an add has just raised on a store that holds a fixed constraint
C5_Witness ==
    /\ last = "raised"
    /\ Len(constraints) = 1
    /\ ~constraints[1].c.stretch

\* C6: an add that raises leaves the store exactly as it was before the call.
C6_AtomicOnFailure ==
    [][last' = "raised" => constraints' = constraints]_vars

\* an add has just raised after a sequence of adds that filled the store
C6_Witness ==
    /\ last = "raised"
    /\ Len(constraints) = 2

\* C7: a stretchy add on a pair with no constraint stores the incoming one;
\* a stretchy add on a pair that holds a stretchy constraint of another
\* absolute size leaves the one of larger absolute size, whatever the
\* direction of the call.  Stated of every add that can be called next.
C7_LargerStretchKept ==
    \A n1 \in Nodes, n2 \in Nodes, size \in Sizes :
        n1 # n2 =>
        LET after == AddResult(constraints, n1, n2, size, TRUE).store IN
        /\ (~HoldsPair(constraints, n1, n2) /\ size # 0)
           => /\ Cardinality(PairItems(after, n1, n2)) = 1
              /\ LET f == PairItem(after, n1, n2) IN
                 /\ f.c.stretch
                 /\ f.c.size = InKeyDirection(f.key, n1, n2, size)
        /\ (/\ HoldsPair(constraints, n1, n2)
            /\ PairItem(constraints, n1, n2).c.stretch
            /\ abs(size) # abs(PairItem(constraints, n1, n2).c.size))
           => /\ Cardinality(PairItems(after, n1, n2)) = 1
              /\ LET e == PairItem(constraints, n1, n2)
                     f == PairItem(after, n1, n2)
                 IN  IF abs(size) > abs(e.c.size)
                     THEN /\ f.c.stretch
                          /\ f.c.size = InKeyDirection(f.key, n1, n2, size)
                     ELSE f = e

\* a stretchy constraint has just replaced the smaller stretchy one of its pair
C7_Witness ==
    /\ last = "replaced_stretch"
    /\ Len(constraints) = 1
    /\ constraints[1].c.stretch
    /\ abs(constraints[1].c.size) = MaxSize

\* C8: a stretchy add of non-zero size on a pair that holds a fixed
\* constraint never raises and replaces it: the pair keeps one item, under
\* the same key, marked stretch, its size the incoming size in the direction
\* of that key.  Stated of every add that can be called next.
C8_StretchReplacesFixed ==
    \A n1 \in Nodes, n2 \in Nodes, size \in Sizes \ {0} :
        (/\ n1 # n2
         /\ HoldsPair(constraints, n1, n2)
         /\ ~PairItem(constraints, n1, n2).c.stretch)
        => LET e == PairItem(constraints, n1, n2)
               r == AddResult(constraints, n1, n2, size, TRUE)
           IN  /\ r.branch # "raised"
               /\ Len(r.store) = Len(constraints)
               /\ Cardinality(PairItems(r.store, n1, n2)) = 1
               /\ LET f == PairItem(r.store, n1, n2) IN
                  /\ f.key = e.key
                  /\ f.c.stretch
                  /\ f.c.size = InKeyDirection(e.key, n1, n2, size)

\* a stretchy constraint has just replaced the fixed one of its pair
C8_Witness ==
    /\ last = "replaced_fixed"
    /\ Len(constraints) = 1
    /\ constraints[1].c.stretch

\* C9: every constraint held in the store has a non-negative size.
C9_SizesNonNegative ==
    \A i \in 1..Len(constraints) : constraints[i].c.size >= 0

\* C10: the store holds at most one item per unordered pair of canonical
\* nodes: no key twice, and never a key together with its reverse.
C10_OneItemPerPair ==
    \A i \in 1..Len(constraints), j \in 1..Len(constraints) :
        i # j =>
            /\ constraints[i].key # constraints[j].key
            /\ constraints[i].key # <<constraints[j].key[2], constraints[j].key[1]>>

\* every pair holds a constraint and the last add raised
C10_Witness ==
    /\ Len(constraints) = 3
    /\ last = "raised"
    /\ \A n1 \in Nodes, n2 \in Nodes : n1 # n2 => HoldsPair(constraints, n1, n2)

====
